---- MODULE Spec2Model ----
(***************************************************************************)
(* Model of the persistence and mutation layer of the command-line to-do   *)
(* list (src/todo.py): the Task record and its dict conversions, the title *)
(* validator, load_tasks / save_tasks with backup and restore, and the     *)
(* add / delete / update / toggle operations driven by the main loop.      *)
(*                                                                         *)
(* Python strings are sequences of one-character strings, so that strip(), *)
(* lower(), int() and strptime() are computed and not assumed.  The        *)
(* in-memory collection holds two kinds of values, as in the program:      *)
(* Task objects (built by Task.from_dict in load_tasks) and plain dicts    *)
(* (built by add_task); every operator below distinguishes them the way    *)
(* the Python expression it models does (t.title, t['title'], json.dump).  *)
(***************************************************************************)
EXTENDS Integers, Sequences, FiniteSets, TLC

\* ------------------------------------------------------------------ bounds
MaxLoaded == 2     \* most records in the storage file at process start
MaxPos == 2        \* largest task number typed at a prompt

\* ------------------------------------------------------- Python str model
DigitChars == <<"0", "1", "2", "3", "4", "5", "6", "7", "8", "9">>

IsDigit(c) == \E i \in 1..10 : DigitChars[i] = c

DigitVal(c) == (CHOOSE i \in 1..10 : DigitChars[i] = c) - 1

IsSpace(c) == c = " "

LowerChar(c) == IF c = "A" THEN "a" ELSE IF c = "B" THEN "b" ELSE c

Lower(s) == [i \in 1..Len(s) |-> LowerChar(s[i])]

Strip(s) ==
    LET ns == {i \in 1..Len(s) : ~IsSpace(s[i])}
    IN  IF ns = {} THEN << >>
        ELSE LET lo == CHOOSE i \in ns : \A j \in ns : i <= j
                 hi == CHOOSE i \in ns : \A j \in ns : j <= i
             IN  SubSeq(s, lo, hi)

RECURSIVE NumVal(_)
NumVal(s) ==
    IF s = << >> THEN 0
    ELSE NumVal(SubSeq(s, 1, Len(s) - 1)) * 10 + DigitVal(s[Len(s)])

AllDigits(s) == \A i \in 1..Len(s) : IsDigit(s[i])

\* int(text): surrounding whitespace and one sign are accepted, then digits
ParseInt(text) ==
    LET s == Strip(text)
        signed == Len(s) > 0 /\ s[1] \in {"-", "+"}
        body == IF signed THEN SubSeq(s, 2, Len(s)) ELSE s
    IN  IF Len(body) > 0 /\ AllDigits(body)
        THEN [ok |-> TRUE,
              val |-> IF signed /\ s[1] = "-" THEN 0 - NumVal(body) ELSE NumVal(body)]
        ELSE [ok |-> FALSE, val |-> 0]

IsLeap(y) == y % 4 = 0 /\ (y % 100 # 0 \/ y % 400 = 0)

DaysInMonth(y, m) ==
    IF m = 2 THEN (IF IsLeap(y) THEN 29 ELSE 28)
    ELSE IF m \in {4, 6, 9, 11} THEN 30 ELSE 31

\* datetime.strptime(s, "%Y-%m-%d") succeeds: %Y is four digits, %m and %d
\* are one or two digits in range, and the day exists in that month
Strptime(s) ==
    LET dashes == {i \in 1..Len(s) : s[i] = "-"}
    IN  /\ Cardinality(dashes) = 2
        /\ LET p1 == CHOOSE i \in dashes : \A j \in dashes : i <= j
               p2 == CHOOSE i \in dashes : \A j \in dashes : j <= i
               ys == SubSeq(s, 1, p1 - 1)
               ms == SubSeq(s, p1 + 1, p2 - 1)
               ds0 == SubSeq(s, p2 + 1, Len(s))
               ds == IF Len(ds0) = 2 /\ ds0[1] = " " THEN SubSeq(ds0, 2, 2) ELSE ds0
           IN  /\ Len(ys) = 4 /\ AllDigits(ys)
               /\ Len(ms) \in {1, 2} /\ AllDigits(ms)
               /\ Len(ds) \in {1, 2} /\ AllDigits(ds)
               /\ NumVal(ys) >= 1
               /\ NumVal(ms) \in 1..12
               /\ NumVal(ds) \in 1..DaysInMonth(NumVal(ys), NumVal(ms))

\* --------------------------------------------------------------- Task data
NoneVal == <<"None">>       \* Python None (no character sequence equals it)
JsonNull == <<"null">>      \* JSON null
AbsentVal == <<"absent">>   \* placeholder of a key the dict does not hold

General == <<"g", "e", "n", "e", "r", "a", "l">>

TaskFields == {"title", "completed", "priority", "due_date", "category",
               "description", "color"}

PriorityValues == {"low", "medium", "high"}

\* Priority(value): the enum member of a value string
Priority(v) ==
    CASE v = "low" -> "Priority.LOW"
      [] v = "medium" -> "Priority.MEDIUM"
      [] v = "high" -> "Priority.HIGH"

PriorityMembers == {Priority(v) : v \in PriorityValues}

\* member.value
PriorityValue(p) == CHOOSE v \in PriorityValues : Priority(v) = p

\* the dataclass constructor cls(**data) with its defaults
Task(keys, d) ==
    [rep |-> "Task", keys |-> TaskFields,
     title |-> d.title,
     completed |-> IF "completed" \in keys THEN d.completed ELSE FALSE,
     priority |-> IF "priority" \in keys THEN d.priority ELSE Priority("medium"),
     due_date |-> IF "due_date" \in keys THEN d.due_date ELSE NoneVal,
     category |-> IF "category" \in keys THEN d.category ELSE General,
     description |-> IF "description" \in keys THEN d.description ELSE NoneVal,
     color |-> IF "color" \in keys THEN d.color ELSE NoneVal]

\* Task.to_dict: asdict(self) with the priority replaced by its value
to_dict(t) ==
    IF t.rep # "Task" THEN [raised |-> "AttributeError", val |-> t]
    ELSE [raised |-> "",
          val |-> [t EXCEPT !.rep = "dict", !.priority = PriorityValue(t.priority)]]

\* Task.from_dict: convert the priority when present, then cls(**data)
from_dict(data) ==
    IF "priority" \in data.keys /\ data.priority \notin PriorityValues
    THEN [raised |-> "ValueError", val |-> data]
    ELSE IF ~(data.keys \subseteq TaskFields) \/ "title" \notin data.keys
    THEN [raised |-> "TypeError", val |-> data]
    ELSE [raised |-> "",
          val |-> Task(data.keys,
                       IF "priority" \in data.keys
                       THEN [data EXCEPT !.priority = Priority(data.priority)]
                       ELSE data)]

\* ------------------------------------------------------------- JSON codec
ToJson(v) == IF v = NoneVal THEN JsonNull ELSE v

FromJson(v) == IF v = JsonNull THEN NoneVal ELSE v

\* json encoding of one dict: None becomes null, the keys are kept
JsonObject(d) ==
    [d EXCEPT !.rep = "json", !.due_date = ToJson(d.due_date),
              !.description = ToJson(d.description), !.color = ToJson(d.color)]

\* json decoding of one object into a dict
PyDict(o) ==
    [o EXCEPT !.rep = "dict", !.due_date = FromJson(o.due_date),
              !.description = FromJson(o.description), !.color = FromJson(o.color)]

\* json.dump can encode a dict of plain values, not a Task nor an enum member
Serializable(x) == x.rep = "dict" /\ x.priority \notin PriorityMembers

\* json.dump(arg, f, indent=4): the encoder writes item by item and raises
\* TypeError at the first value it cannot encode, after the items before it
JsonDump(arg) ==
    LET bad == {i \in 1..Len(arg) : ~Serializable(arg[i])}
    IN  IF bad = {}
        THEN [ok |-> TRUE, recs |-> [i \in 1..Len(arg) |-> JsonObject(arg[i])]]
        ELSE LET k == CHOOSE i \in bad : \A j \in bad : i <= j
             IN  [ok |-> FALSE, recs |-> [i \in 1..(k - 1) |-> JsonObject(arg[i])]]

\* ------------------------------------------------------------ file system
NoFile == [exists |-> FALSE, valid |-> FALSE, recs |-> << >>]

\* a file cut short: it is there, and it is not JSON
Truncated(recs) == [exists |-> TRUE, valid |-> FALSE, recs |-> recs]

JsonFile(recs) == [exists |-> TRUE, valid |-> TRUE, recs |-> recs]

\* ------------------------------------------------------------- load_tasks
\* open + json.load + from_dict of every record; FileNotFoundError and
\* JSONDecodeError give [], any other exception leaves the function
load_tasks(f) ==
    IF ~f.exists \/ ~f.valid THEN [raised |-> "", tasks |-> << >>]
    ELSE LET res == [i \in 1..Len(f.recs) |-> from_dict(PyDict(f.recs[i]))]
             bad == {i \in 1..Len(res) : res[i].raised # ""}
         IN  IF bad = {}
             THEN [raised |-> "", tasks |-> [i \in 1..Len(res) |-> res[i].val]]
             ELSE [raised |-> res[CHOOSE i \in bad : \A j \in bad : i <= j].raised,
                   tasks |-> << >>]

\* ------------------------------------------------------------- save_tasks
\* what one save_tasks call printed and did
NoSave ==
    [called |-> FALSE, hadFile |-> FALSE, backupCreated |-> FALSE,
     injected |-> FALSE, msgs |-> << >>]

\* I/O faults the environment may inject into one save_tasks call: the backup
\* copy fails (leaving nothing, or a cut-short backup file), the open or the
\* write of the primary file fails, the restoring copy fails
NoFault == [backup |-> "none", write |-> "none", restore |-> "none"]

Faults ==
    {NoFault,
     [backup |-> "none", write |-> "open", restore |-> "none"],
     [backup |-> "none", write |-> "mid", restore |-> "none"],
     [backup |-> "none", write |-> "mid", restore |-> "fail"],
     [backup |-> "fail", write |-> "mid", restore |-> "none"],
     [backup |-> "partial", write |-> "mid", restore |-> "none"]}

\* save_tasks with the restoring copy left out: the message is printed and
\* the storage file stays as the failed write left it
save_tasks_lost_restore(arg, f, old, fault) ==
    LET hadFile == f.exists
        bk1 == IF ~hadFile \/ fault.backup = "fail" THEN old
               ELSE IF fault.backup = "partial" THEN Truncated(<< >>)
               ELSE f
        m1 == IF hadFile /\ fault.backup # "none"
              THEN <<"Warning: Could not create backup">> ELSE << >>
        dump == JsonDump(arg)
        writeOk == fault.write = "none" /\ dump.ok
        f1 == IF fault.write = "open" THEN f
              ELSE IF fault.write = "mid" THEN Truncated(<< >>)
              ELSE IF dump.ok THEN JsonFile(dump.recs)
              ELSE Truncated(dump.recs)
        canRestore == hadFile /\ bk1.exists
        f2 == f1
        m2 == IF writeOk THEN << >>
              ELSE IF ~hadFile \/ ~canRestore THEN <<"Error saving tasks">>
              ELSE IF fault.restore # "none"
              THEN <<"Error saving tasks", "Error restoring backup">>
              ELSE <<"Error saving tasks", "Restored from backup.">>
    IN  [file |-> f2, backup |-> bk1,
         raised |-> IF ~writeOk /\ ~hadFile THEN "UnboundLocalError" ELSE "",
         report |-> [called |-> TRUE, hadFile |-> hadFile,
                     backupCreated |-> hadFile /\ fault.backup = "none",
                     injected |-> \/ hadFile /\ fault.backup # "none"
                                  \/ fault.write # "none"
                                  \/ ~writeOk /\ canRestore /\ fault.restore # "none",
                     msgs |-> m1 \o m2]]

\* save_tasks(arg) with TASK_FILE holding f and `old` the file already at the
\* name backup_file takes (NoFile, unless an earlier save of the same second
\* left its backup under that name).
\*   backup : when TASK_FILE exists, backup_file is bound to the stamped name
\*            and TASK_FILE is copied to it; a failing copy is only warned of
\*   write  : open(TASK_FILE, "w") truncates, json.dump writes; a TypeError of
\*            the encoder leaves the items written before it, an I/O error
\*            while the buffer is flushed leaves the file empty
\*   restore: after a failed write, os.path.exists(backup_file) reads a local
\*            that is unbound when TASK_FILE did not exist (UnboundLocalError);
\*            else the file of that name, if any, is copied back
save_tasks(arg, f, old, fault) ==
    LET hadFile == f.exists
        bk1 == IF ~hadFile \/ fault.backup = "fail" THEN old
               ELSE IF fault.backup = "partial" THEN Truncated(<< >>)
               ELSE f
        m1 == IF hadFile /\ fault.backup # "none"
              THEN <<"Warning: Could not create backup">> ELSE << >>
        dump == JsonDump(arg)
        writeOk == fault.write = "none" /\ dump.ok
        f1 == IF fault.write = "open" THEN f
              ELSE IF fault.write = "mid" THEN Truncated(<< >>)
              ELSE IF dump.ok THEN JsonFile(dump.recs)
              ELSE Truncated(dump.recs)
        canRestore == hadFile /\ bk1.exists
        f2 == IF writeOk \/ ~canRestore \/ fault.restore # "none" THEN f1
              ELSE bk1
        m2 == IF writeOk THEN << >>
              ELSE IF ~hadFile \/ ~canRestore THEN <<"Error saving tasks">>
              ELSE IF fault.restore # "none"
              THEN <<"Error saving tasks", "Error restoring backup">>
              ELSE <<"Error saving tasks", "Restored from backup.">>
    IN  [file |-> f2, backup |-> bk1,
         raised |-> IF ~writeOk /\ ~hadFile THEN "UnboundLocalError" ELSE "",
         report |-> [called |-> TRUE, hadFile |-> hadFile,
                     backupCreated |-> hadFile /\ fault.backup = "none",
                     injected |-> \/ hadFile /\ fault.backup # "none"
                                  \/ fault.write # "none"
                                  \/ ~writeOk /\ canRestore /\ fault.restore # "none",
                     msgs |-> m1 \o m2]]

\* ---------------------------------------------------------------- validator
\* create_task_index: {t.title.lower(): i}; t.title of a dict is an
\* AttributeError.  The index is the function from lowered titles to the last
\* position holding each.
create_task_index(tasks) ==
    IF \E i \in 1..Len(tasks) : tasks[i].rep # "Task"
    THEN [raised |-> "AttributeError", index |-> << >>]
    ELSE [raised |-> "",
          index |-> [k \in {Lower(tasks[i].title) : i \in 1..Len(tasks)} |->
                       CHOOSE i \in 1..Len(tasks) :
                          /\ Lower(tasks[i].title) = k
                          /\ \A j \in 1..Len(tasks) :
                                Lower(tasks[j].title) = k => j <= i]]

NoIndex == [given |-> FALSE, index |-> << >>]

WithIndex(index) == [given |-> TRUE, index |-> index]

\* validate_task_title(title, tasks, task_index).  Without an index the scan
\* any(t['title'].lower() == ...) stops at the first match and raises
\* TypeError at the first Task object it subscripts.
validate_task_title(title, tasks, task_index) ==
    IF Strip(title) = << >>
    THEN [raised |-> "ValueError", kind |-> "EmptyTitle", val |-> << >>]
    ELSE IF task_index.given
    THEN IF Lower(title) \in DOMAIN task_index.index
         THEN [raised |-> "ValueError", kind |-> "DuplicateTitle", val |-> << >>]
         ELSE [raised |-> "", kind |-> "", val |-> Strip(title)]
    ELSE LET stop == {i \in 1..Len(tasks) :
                        \/ tasks[i].rep = "Task"
                        \/ Lower(tasks[i].title) = Lower(title)}
         IN  IF stop = {} THEN [raised |-> "", kind |-> "", val |-> Strip(title)]
             ELSE LET k == CHOOSE i \in stop : \A j \in stop : i <= j
                  IN  IF tasks[k].rep = "Task"
                      THEN [raised |-> "TypeError", kind |-> "TypeError", val |-> << >>]
                      ELSE [raised |-> "ValueError", kind |-> "DuplicateTitle",
                            val |-> << >>]

\* ---------------------------------------------------------------- view_tasks
\* view_tasks(tasks) with no filter: prints every task through task["..."],
\* which is a TypeError on the first Task object
view_tasks(tasks) ==
    IF tasks = << >> THEN [raised |-> "", msg |-> "No tasks in your list!"]
    ELSE IF \E i \in 1..Len(tasks) : tasks[i].rep = "Task"
    THEN [raised |-> "TypeError", msg |-> ""]
    ELSE [raised |-> "", msg |-> "Your To-Do List:"]

\* --------------------------------------------------------------- operations
\* The outcome of one menu operation: the collection and files it leaves, the
\* report of its save_tasks call, the error it ended with ("" for none),
\* whether that error left the operation for main's handler, whether the
\* success message was printed, and the inputs it read from the prompt.
NotSaved(env) ==
    [file |-> env.file, backup |-> env.old, raised |-> "", report |-> NoSave]

Result(tasks, sv, err, escaped, done, used) ==
    [tasks |-> tasks, file |-> sv.file, backup |-> sv.backup, save |-> sv.report,
     err |-> err, escaped |-> escaped, done |-> done, used |-> used]

PriorityKeys == {<<"1">>, <<"2">>, <<"3">>}

priority_map(k) ==
    CASE k = <<"1">> -> "low"
      [] k = <<"2">> -> "medium"
      [] k = <<"3">> -> "high"

AddKeys == {"title", "completed", "priority", "due_date", "category"}

OrDefault(s, default) == IF s = << >> THEN default ELSE s

\* add_task: index, title prompt and validation, priority, due date, category,
\* then append the new dict and save.  Only ValueError is handled here.
add_task(tasks, in, env) ==
    LET idx == create_task_index(tasks)
        title == Strip(in.title)
        v == validate_task_title(title, tasks, WithIndex(idx.index))
        priority == OrDefault(Strip(in.priority), <<"2">>)
        due_date == Strip(in.due)
        category == OrDefault(Strip(in.category), General)
        new_task == [rep |-> "dict", keys |-> AddKeys, title |-> title,
                     completed |-> FALSE, priority |-> priority_map(priority),
                     due_date |-> OrDefault(due_date, NoneVal),
                     category |-> category,
                     description |-> AbsentVal, color |-> AbsentVal]
        appended == Append(tasks, new_task)
        sv == save_tasks(appended, env.file, env.old, env.fault)
        all == <<in.title, in.priority, in.due, in.category>>
    IN  IF idx.raised # ""
        THEN Result(tasks, NotSaved(env), idx.raised, TRUE, FALSE, << >>)
        ELSE IF v.raised # ""
        THEN Result(tasks, NotSaved(env), v.kind, v.raised # "ValueError", FALSE,
                    <<in.title>>)
        ELSE IF priority \notin PriorityKeys
        THEN Result(tasks, NotSaved(env), "InvalidPriority", FALSE, FALSE,
                    <<in.title, in.priority>>)
        ELSE IF due_date # << >> /\ ~Strptime(due_date)
        THEN Result(tasks, NotSaved(env), "InvalidDate", FALSE, FALSE,
                    <<in.title, in.priority, in.due>>)
        ELSE IF sv.raised # ""
        THEN Result(appended, sv, sv.raised, TRUE, FALSE, all)
        ELSE Result(appended, sv, "", FALSE, TRUE, all)

Pop(tasks, k) == SubSeq(tasks, 1, k - 1) \o SubSeq(tasks, k + 1, Len(tasks))

\* delete_task: view, task number, pop, save, then removed.title in the
\* success message (an AttributeError when the removed value is a dict)
delete_task(tasks, in, env) ==
    LET view == view_tasks(tasks)
        n == ParseInt(in.pos)
        task_num == n.val - 1
        popped == Pop(tasks, task_num + 1)
        sv == save_tasks(popped, env.file, env.old, env.fault)
    IN  IF view.raised # ""
        THEN Result(tasks, NotSaved(env), view.raised, TRUE, FALSE, << >>)
        ELSE IF ~n.ok
        THEN Result(tasks, NotSaved(env), "InvalidNumber", FALSE, FALSE, <<in.pos>>)
        ELSE IF ~(0 <= task_num /\ task_num < Len(tasks))
        THEN Result(tasks, NotSaved(env), "IndexOutOfRange", FALSE, FALSE, <<in.pos>>)
        ELSE IF sv.raised # ""
        THEN Result(popped, sv, sv.raised, TRUE, FALSE, <<in.pos>>)
        ELSE IF tasks[task_num + 1].rep # "Task"
        THEN Result(popped, sv, "AttributeError", TRUE, FALSE, <<in.pos>>)
        ELSE Result(popped, sv, "", FALSE, TRUE, <<in.pos>>)

\* toggle_task_completion: tasks[n]["completed"] = not tasks[n]["completed"]
\* (a TypeError on a Task object), then save
toggle_task_completion(tasks, in, env) ==
    LET view == view_tasks(tasks)
        n == ParseInt(in.pos)
        task_num == n.val - 1
        toggled == [tasks EXCEPT ![task_num + 1].completed = ~@]
        sv == save_tasks(toggled, env.file, env.old, env.fault)
    IN  IF tasks = << >>
        THEN Result(tasks, NotSaved(env), "NoTasks", FALSE, FALSE, << >>)
        ELSE IF view.raised # ""
        THEN Result(tasks, NotSaved(env), view.raised, TRUE, FALSE, << >>)
        ELSE IF ~n.ok
        THEN Result(tasks, NotSaved(env), "InvalidNumber", FALSE, FALSE, <<in.pos>>)
        ELSE IF ~(0 <= task_num /\ task_num < Len(tasks))
        THEN Result(tasks, NotSaved(env), "IndexOutOfRange", FALSE, FALSE, <<in.pos>>)
        ELSE IF tasks[task_num + 1].rep = "Task"
        THEN Result(tasks, NotSaved(env), "TypeError", TRUE, FALSE, <<in.pos>>)
        ELSE IF sv.raised # ""
        THEN Result(toggled, sv, sv.raised, TRUE, FALSE, <<in.pos>>)
        ELSE Result(toggled, sv, "", FALSE, TRUE, <<in.pos>>)

\* the assignment tasks[task_num].<field> = value of update_task: the new
\* collection, or the error that kept it from being made
UpdateField(tasks, k, choice, value) ==
    LET others == {i \in 1..Len(tasks) : i # k}
        index == [t \in {Lower(tasks[i].title) : i \in others} |-> 0]
        v == validate_task_title(Strip(value), tasks, WithIndex(index))
        isTask == tasks[k].rep = "Task"
        set(field, x) == [ok |-> isTask,
                          err |-> IF isTask THEN "" ELSE "AttributeError",
                          tasks |-> IF isTask THEN [tasks EXCEPT ![k][field] = x]
                                    ELSE tasks]
        fail(err) == [ok |-> FALSE, err |-> err, tasks |-> tasks]
    IN  CASE choice = <<"1">> ->
               IF \E i \in others : tasks[i].rep # "Task" THEN fail("AttributeError")
               ELSE IF v.raised # "" THEN fail(v.kind)
               ELSE set("title", Strip(value))
          [] choice = <<"2">> ->
               IF Strip(value) \notin PriorityKeys THEN fail("InvalidPriority")
               ELSE set("priority", Priority(priority_map(Strip(value))))
          [] choice = <<"3">> ->
               IF Strip(value) # << >> /\ ~Strptime(Strip(value))
               THEN fail("InvalidDate")
               ELSE set("due_date", OrDefault(Strip(value), NoneVal))
          [] choice = <<"4">> ->
               IF Strip(value) = << >> THEN fail("EmptyCategory")
               ELSE set("category", Strip(value))
          [] choice = <<"5">> ->
               set("description", OrDefault(Strip(value), NoneVal))
          [] OTHER -> fail("InvalidChoice")

\* update_task: view (outside the try), task number, field choice, the
\* assignment, then save_tasks([t.to_dict() for t in tasks]); every exception
\* raised inside the try is caught and printed by update_task itself
update_task(tasks, in, env) ==
    LET view == view_tasks(tasks)
        n == ParseInt(in.pos)
        task_num == n.val - 1
        choice == Strip(in.choice)
        upd == UpdateField(tasks, task_num + 1, choice, in.value)
        dicts == [i \in 1..Len(upd.tasks) |-> to_dict(upd.tasks[i])]
        arg == [i \in 1..Len(dicts) |-> dicts[i].val]
        sv == save_tasks(arg, env.file, env.old, env.fault)
        read == IF choice \in {<<"1">>, <<"2">>, <<"3">>, <<"4">>, <<"5">>}
                THEN <<in.pos, in.choice, in.value>> ELSE <<in.pos, in.choice>>
    IN  IF tasks = << >>
        THEN Result(tasks, NotSaved(env), "NoTasks", FALSE, FALSE, << >>)
        ELSE IF view.raised # ""
        THEN Result(tasks, NotSaved(env), view.raised, TRUE, FALSE, << >>)
        ELSE IF ~n.ok
        THEN Result(tasks, NotSaved(env), "InvalidNumber", FALSE, FALSE, <<in.pos>>)
        ELSE IF ~(0 <= task_num /\ task_num < Len(tasks))
        THEN Result(tasks, NotSaved(env), "IndexOutOfRange", FALSE, FALSE, <<in.pos>>)
        ELSE IF ~upd.ok
        THEN Result(tasks, NotSaved(env), upd.err, FALSE, FALSE, read)
        ELSE IF \E i \in 1..Len(dicts) : dicts[i].raised # ""
        THEN Result(upd.tasks, NotSaved(env), "AttributeError", FALSE, FALSE, read)
        ELSE IF sv.raised # ""
        THEN Result(upd.tasks, sv, sv.raised, FALSE, FALSE, read)
        ELSE Result(upd.tasks, sv, "", FALSE, TRUE, read)

\* ------------------------------------------------------ read-only operations
\* str.startswith, the in operator on strings, and str.split
StartsWith(s, p) == Len(p) <= Len(s) /\ SubSeq(s, 1, Len(p)) = p

Contains(s, k) ==
    \E i \in 0..(Len(s) - Len(k)) : SubSeq(s, i + 1, i + Len(k)) = k

RECURSIVE Split(_, _)
Split(s, sep) ==
    LET at == {i \in 1..Len(s) : s[i] = sep}
    IN  IF at = {} THEN <<s>>
        ELSE LET k == CHOOSE i \in at : \A j \in at : i <= j
             IN  <<SubSeq(s, 1, k - 1)>> \o Split(SubSeq(s, k + 1, Len(s)), sep)

Completed == <<"c", "o", "m", "p", "l", "e", "t", "e", "d">>

Pending == <<"p", "e", "n", "d", "i", "n", "g">>

PriorityPrefix == <<"p", "r", "i", "o", "r", "i", "t", "y", ":">>

CategoryPrefix == <<"c", "a", "t", "e", "g", "o", "r", "y", ":">>

\* the text of a priority value, as typed and as compared by t["priority"]
PriorityText(v) ==
    CASE v = "low" -> <<"l", "o", "w">>
      [] v = "medium" -> <<"m", "e", "d", "i", "u", "m">>
      [] v = "high" -> <<"h", "i", "g", "h">>
      [] OTHER -> << >>

PriorityTexts == {PriorityText(v) : v \in PriorityValues}

\* view_tasks(tasks, filter_by): every filter subscripts each task of the
\* collection (TypeError at a Task object); split(":") of a value that holds
\* a colon gives more than two parts, which the unpacking rejects
view_tasks_filter_by(tasks, filter_by) ==
    IF tasks = << >> THEN [raised |-> "", msg |-> "No tasks in your list!"]
    ELSE IF filter_by \in {NoneVal, << >>} THEN view_tasks(tasks)
    ELSE IF filter_by \in {Completed, Pending}
    THEN IF \E i \in 1..Len(tasks) : tasks[i].rep = "Task"
         THEN [raised |-> "TypeError", msg |-> ""]
         ELSE IF \E i \in 1..Len(tasks) :
                    tasks[i].completed = (filter_by = Completed)
         THEN [raised |-> "", msg |-> "Your To-Do List:"]
         ELSE [raised |-> "", msg |-> "No tasks match your filter!"]
    ELSE IF StartsWith(filter_by, PriorityPrefix) \/ StartsWith(filter_by, CategoryPrefix)
    THEN LET parts == Split(filter_by, ":")
         IN  IF Len(parts) # 2 THEN [raised |-> "ValueError", msg |-> ""]
             ELSE IF \E i \in 1..Len(tasks) : tasks[i].rep = "Task"
             THEN [raised |-> "TypeError", msg |-> ""]
             ELSE IF \E i \in 1..Len(tasks) :
                        IF parts[1] = SubSeq(PriorityPrefix, 1, 8)
                        THEN PriorityText(tasks[i].priority) = parts[2]
                        ELSE tasks[i].category = parts[2]
             THEN [raised |-> "", msg |-> "Your To-Do List:"]
             ELSE [raised |-> "", msg |-> "No tasks match your filter!"]
    ELSE [raised |-> "", msg |-> "No tasks match your filter!"]

\* what a menu entry that ends in view_tasks leaves: nothing is changed, an
\* exception of view_tasks leaves the entry
Shown(tasks, view, used, env) ==
    Result(tasks, NotSaved(env),
           IF view.raised # "" THEN view.raised
           ELSE IF view.msg = "No tasks in your list!" THEN "NoTasks"
           ELSE IF view.msg = "No tasks match your filter!" THEN "NoMatch"
           ELSE "",
           view.raised # "", view.msg = "Your To-Do List:", used)

\* main, choices "2", "3", "4"
view_entry(tasks, in, env) ==
    Shown(tasks, view_tasks_filter_by(tasks, in.filter_by), << >>, env)

\* main, choice "8"
filter_priority(tasks, in, env) ==
    LET priority == Lower(Strip(in.priority))
    IN  IF priority \notin PriorityTexts
        THEN Result(tasks, NotSaved(env), "InvalidPriority", FALSE, FALSE,
                    <<in.priority>>)
        ELSE Shown(tasks, view_tasks_filter_by(tasks, PriorityPrefix \o priority),
                   <<in.priority>>, env)

\* main, choice "9"
filter_category(tasks, in, env) ==
    Shown(tasks,
          view_tasks_filter_by(tasks, CategoryPrefix \o Lower(Strip(in.category))),
          <<in.category>>, env)

SortKeys == {<<"1">>, <<"2">>, <<"3">>, <<"4">>}

\* sort_tasks: every key function reads an attribute (AttributeError at a
\* dict), and the sorted copy goes to view_tasks.  The copy is a permutation
\* of the collection, and what view_tasks does with it does not depend on
\* the order, so the collection itself stands for the copy.
sort_tasks(tasks, in, env) ==
    LET choice == Strip(in.choice)
    IN  IF choice \notin SortKeys
        THEN Result(tasks, NotSaved(env), "InvalidChoice", FALSE, FALSE, <<in.choice>>)
        ELSE IF \E i \in 1..Len(tasks) : tasks[i].rep # "Task"
        THEN Result(tasks, NotSaved(env), "AttributeError", TRUE, FALSE, <<in.choice>>)
        ELSE Shown(tasks, view_tasks(tasks), <<in.choice>>, env)

\* show_statistics: t.completed, t.priority, t.category of every task
show_statistics(tasks, env) ==
    IF \E i \in 1..Len(tasks) : tasks[i].rep # "Task"
    THEN Result(tasks, NotSaved(env), "AttributeError", TRUE, FALSE, << >>)
    ELSE Result(tasks, NotSaved(env), "", FALSE, TRUE, << >>)

\* search_tasks: the comprehension reads t.title of every task, the matches
\* go to view_tasks
search_tasks(tasks, in, env) ==
    LET keyword == Lower(Strip(in.keyword))
        Match(t) == \/ Contains(Lower(t.title), keyword)
                    \/ /\ t.description \notin {NoneVal, << >>}
                       /\ Contains(Lower(t.description), keyword)
                    \/ Contains(Lower(t.category), keyword)
    IN  IF keyword = << >>
        THEN Result(tasks, NotSaved(env), "EmptyKeyword", FALSE, FALSE, <<in.keyword>>)
        ELSE IF \E i \in 1..Len(tasks) : tasks[i].rep # "Task"
        THEN Result(tasks, NotSaved(env), "AttributeError", TRUE, FALSE, <<in.keyword>>)
        ELSE IF SelectSeq(tasks, Match) = << >>
        THEN Result(tasks, NotSaved(env), "NoMatch", FALSE, FALSE, <<in.keyword>>)
        ELSE Shown(tasks, view_tasks(SelectSeq(tasks, Match)), <<in.keyword>>, env)

ExportKeys == {<<"1">>, <<"2">>}

\* export_tasks: its own try catches a failing open or write of the export
\* file and the AttributeError of task.completed at a dict.  The export
\* file is a sink nothing reads back; its content is not kept.
export_tasks(tasks, in, env) ==
    LET choice == Strip(in.choice)
    IN  IF choice \notin ExportKeys
        THEN Result(tasks, NotSaved(env), "InvalidChoice", FALSE, FALSE, <<in.choice>>)
        ELSE IF env.fault.write # "none"
        THEN Result(tasks, NotSaved(env), "OSError", FALSE, FALSE, <<in.choice>>)
        ELSE IF \E i \in 1..Len(tasks) : tasks[i].rep # "Task"
        THEN Result(tasks, NotSaved(env), "AttributeError", FALSE, FALSE,
                    <<in.choice>>)
        ELSE Result(tasks, NotSaved(env), "", FALSE, TRUE, <<in.choice>>)

\* main, the else branch: a choice that names no entry
invalid_choice(tasks, env) ==
    Result(tasks, NotSaved(env), "InvalidChoice", FALSE, FALSE, << >>)

\* ------------------------------------------------------------------ inputs
Seqs(S, n) == UNION {[1..k -> S] : k \in 0..n}

\* what is typed at the title prompt
RawTitles == {<< >>, <<" ", " ">>, <<"a">>, <<" ", "A">>, <<"b", " ">>, <<"A", "b">>}

IsoDate == <<"2", "0", "2", "5", "-", "0", "3", "-", "0", "1">>
SlashDate == <<"0", "3", "/", "0", "1", "/", "2", "0", "2", "5">>
NoSuchDay == <<"2", "0", "2", "5", "-", "0", "2", "-", "3", "0">>
Work == <<"w">>

\* what is typed after the title at the prompts of add_task
AddDetails ==
    {[priority |-> << >>, due |-> << >>, category |-> << >>],
     [priority |-> <<"3">>, due |-> IsoDate, category |-> Work],
     [priority |-> <<"9">>, due |-> << >>, category |-> << >>],
     [priority |-> <<"1">>, due |-> SlashDate, category |-> << >>],
     [priority |-> << >>, due |-> NoSuchDay, category |-> Work]}

PosInputs == {<<DigitChars[n + 1]>> : n \in 0..MaxPos} \cup {<<"x">>}

\* the field choice and the value typed at the prompts of update_task
UpdateInputs ==
    {[choice |-> <<"1">>, value |-> <<" ", "A">>],
     [choice |-> <<"2">>, value |-> <<"3">>],
     [choice |-> <<"2">>, value |-> <<"9">>],
     [choice |-> <<"3">>, value |-> IsoDate],
     [choice |-> <<"3">>, value |-> SlashDate],
     [choice |-> <<"4">>, value |-> Work],
     [choice |-> <<"5">>, value |-> Work],
     [choice |-> <<"6">>, value |-> << >>]}

\* the records a storage file may hold at process start: two as add_task
\* saves them, one with only a title, and three that Task.from_dict rejects
JsonRecord(keys, title, completed, priority, due_date, category) ==
    [rep |-> "json", keys |-> keys, title |-> title, completed |-> completed,
     priority |-> priority, due_date |-> due_date, category |-> category,
     description |-> AbsentVal, color |-> AbsentVal]

FileRecords ==
    {JsonRecord(AddKeys, <<"a">>, FALSE, "high", JsonNull, General),
     JsonRecord(AddKeys, <<"A", "b">>, TRUE, "low", IsoDate, Work),
     JsonRecord({"title"}, <<"B">>, FALSE, "absent", AbsentVal, AbsentVal),
     JsonRecord({"title", "priority"}, <<"a">>, FALSE, "urgent", AbsentVal, AbsentVal),
     JsonRecord({"title", "foo"}, <<"a">>, FALSE, "absent", AbsentVal, AbsentVal),
     JsonRecord({"completed"}, AbsentVal, TRUE, "absent", AbsentVal, AbsentVal)}

InitialStores ==
    {NoFile, Truncated(<< >>)} \cup {JsonFile(recs) : recs \in Seqs(FileRecords, MaxLoaded)}

\* what may be typed at the prompts of the read-only entries
ViewFilters == {NoneVal, Pending, Completed}

PriorityInputs ==
    {<<"l", "o", "w">>, <<" ", "h", "i", "g", "h">>, <<"u", "r", "g", "e", "n", "t">>}

CategoryInputs == {Work, General, <<"w", ":", "w">>}

SortInputs == {<<"1">>, <<" ", "3">>, <<"x">>}

Keywords == {<< >>, <<" ", "A">>, <<"x">>}

ExportInputs == ExportKeys \cup {<<"3">>}


\* ----------------------------------------------------------- state machine
VARIABLES
    pc,        \* where main is: "start", "menu", "crashed", "exited"
    tasks,     \* the in-memory collection of main
    file,      \* tasks.json
    pre,       \* the collection before the last operation
    preFile,   \* tasks.json before the last operation
    last       \* what the last operation did

vars == <<pc, tasks, file, pre, preFile, last>>

Init ==
    /\ pc = "start"
    /\ tasks = << >>
    /\ file \in InitialStores
    /\ pre = << >>
    /\ preFile = file
    /\ last = [op |-> "none", err |-> "", escaped |-> FALSE, done |-> FALSE,
               used |-> << >>, save |-> NoSave]

\* main, line 506: tasks = load_tasks(), outside the try of the loop
Load ==
    /\ pc = "start"
    /\ LET r == load_tasks(file)
       IN  /\ pc' = IF r.raised # "" THEN "crashed" ELSE "menu"
           /\ tasks' = r.tasks
           /\ last' = [op |-> "load", err |-> r.raised, escaped |-> r.raised # "",
                       done |-> r.raised = "", used |-> << >>, save |-> NoSave]
    /\ pre' = tasks
    /\ preFile' = file
    /\ UNCHANGED file

\* The environment of one operation: TASK_FILE, the file already at the name
\* of the backup (none: the saves of a session fall in different seconds, so
\* each stamped name is new), and the faults injected into save_tasks.
Env(fault) == [file |-> file, old |-> NoFile, fault |-> fault]

\* The classes of the exceptions that leave a menu entry; each derives from
\* Exception.
ExceptionClasses == {"AttributeError", "TypeError", "UnboundLocalError", "ValueError"}

\* a handler as narrow as the one of add_task: except ValueError
main_except_value_error(err) == err = "ValueError"

\* main, lines 549-551: except Exception as e, print, continue
main_except(err) == err \in ExceptionClasses

\* one pass of the loop of main through a menu entry; an exception that
\* leaves the entry ends the process unless the handler of main catches it
Apply(op, r) ==
    /\ tasks' = r.tasks
    /\ file' = r.file
    /\ pre' = tasks
    /\ preFile' = file
    /\ last' = [op |-> op, err |-> r.err, escaped |-> r.escaped, done |-> r.done,
                used |-> r.used, save |-> r.save]
    /\ pc' = IF r.escaped /\ ~main_except(r.err) THEN "crashed" ELSE "menu"

\* The outcomes of an operation from the current state, over everything that
\* may be typed at its prompts and every fault of its save_tasks call.  A
\* prompt the operation does not reach, or a fault of a save it does not
\* make, changes nothing in the outcome.
Add(F) ==
    /\ pc = "menu"
    /\ \E r \in {add_task(tasks, [title |-> title, priority |-> d.priority,
                                  due |-> d.due, category |-> d.category],
                          Env(fault)) :
                    title \in RawTitles, d \in AddDetails, fault \in F} :
          Apply("add", r)

Delete(F) ==
    /\ pc = "menu"
    /\ \E r \in {delete_task(tasks, [pos |-> pos], Env(fault)) :
                    pos \in PosInputs, fault \in F} :
          Apply("delete", r)

Toggle(F) ==
    /\ pc = "menu"
    /\ \E r \in {toggle_task_completion(tasks, [pos |-> pos], Env(fault)) :
                    pos \in PosInputs, fault \in F} :
          Apply("toggle", r)

Update(F) ==
    /\ pc = "menu"
    /\ \E r \in {update_task(tasks, [pos |-> pos, choice |-> u.choice,
                                     value |-> u.value], Env(fault)) :
                    pos \in PosInputs, u \in UpdateInputs, fault \in F} :
          Apply("update", r)

View ==
    /\ pc = "menu"
    /\ \E r \in {view_entry(tasks, [filter_by |-> f], Env(NoFault)) :
                    f \in ViewFilters} :
          Apply("view", r)

FilterPriority ==
    /\ pc = "menu"
    /\ \E r \in {filter_priority(tasks, [priority |-> p], Env(NoFault)) :
                    p \in PriorityInputs} :
          Apply("filter", r)

FilterCategory ==
    /\ pc = "menu"
    /\ \E r \in {filter_category(tasks, [category |-> c], Env(NoFault)) :
                    c \in CategoryInputs} :
          Apply("filter", r)

Sort ==
    /\ pc = "menu"
    /\ \E r \in {sort_tasks(tasks, [choice |-> c], Env(NoFault)) :
                    c \in SortInputs} :
          Apply("sort", r)

Statistics ==
    /\ pc = "menu"
    /\ Apply("statistics", show_statistics(tasks, Env(NoFault)))

Search ==
    /\ pc = "menu"
    /\ \E r \in {search_tasks(tasks, [keyword |-> k], Env(NoFault)) :
                    k \in Keywords} :
          Apply("search", r)

Export(F) ==
    /\ pc = "menu"
    /\ \E r \in {export_tasks(tasks, [choice |-> c], Env(fault)) :
                    c \in ExportInputs, fault \in F} :
          Apply("export", r)

InvalidChoice ==
    /\ pc = "menu"
    /\ Apply("invalid", invalid_choice(tasks, Env(NoFault)))

\* choice "14": break
Exit ==
    /\ pc = "menu"
    /\ pc' = "exited"
    /\ UNCHANGED <<tasks, file, pre, preFile, last>>

\* the program in an environment that may inject I/O faults into save_tasks
Next ==
    \/ Load \/ Add(Faults) \/ Delete(Faults) \/ Toggle(Faults) \/ Update(Faults)
    \/ View \/ FilterPriority \/ FilterCategory \/ Sort \/ Statistics \/ Search
    \/ Export(Faults) \/ InvalidChoice \/ Exit

Spec == Init /\ [][Next]_vars

\* the program when no I/O fault is injected
NextFaultFree ==
    \/ Load \/ Add({NoFault}) \/ Delete({NoFault}) \/ Toggle({NoFault})
    \/ Update({NoFault})
    \/ View \/ FilterPriority \/ FilterCategory \/ Sort \/ Statistics \/ Search
    \/ Export({NoFault}) \/ InvalidChoice \/ Exit

FaultFree == Init /\ [][NextFaultFree]_vars

\* ------------------------------------------------------------ properties
Range(q) == {q[i] : i \in 1..Len(q)}

\* the meaning of a task, whichever way it is held: its six documented fields
Sem(t) ==
    [title |-> t.title,
     completed |-> t.completed,
     priority |-> IF t.priority \in PriorityMembers THEN PriorityValue(t.priority)
                  ELSE t.priority,
     due_date |-> IF "due_date" \in t.keys THEN t.due_date ELSE NoneVal,
     category |-> IF "category" \in t.keys THEN t.category ELSE General,
     description |-> IF "description" \in t.keys THEN t.description ELSE NoneVal]

SemSeq(ts) == [i \in 1..Len(ts) |-> Sem(ts[i])]

\* the file decodes to a collection semantically equal to ts
FileHolds(f, ts) ==
    /\ f.exists /\ f.valid
    /\ load_tasks(f).raised = ""
    /\ SemSeq(load_tasks(f).tasks) = SemSeq(ts)

WriteFailed(report) == "Error saving tasks" \in Range(report.msgs)

PosOf(k) == <<DigitChars[k + 1]>>

HasTitle(ts, title) ==
    \E i \in 1..Len(ts) : Lower(ts[i].title) = Lower(Strip(title))

\* C1: whenever an add / toggle / delete / update with no injected I/O fault
\* has changed the in-memory collection, at the end of that operation the
\* storage file decodes to a collection semantically equal to it.
C1_MutationPersisted ==
    (/\ last.op \in {"add", "toggle", "delete", "update"}
     /\ tasks # pre
     /\ ~last.save.injected)
    => FileHolds(file, tasks)

\* C2: for every collection the session holds and every candidate title that
\* equals an existing title case-insensitively, add_task ends with the
\* duplicate-title error and leaves the collection unchanged.
C2_DuplicateRejected ==
    pc = "menu" =>
        \A title \in RawTitles :
            HasTitle(tasks, title) =>
                LET r == add_task(tasks, [title |-> title, priority |-> << >>,
                                         due |-> << >>, category |-> << >>],
                                  Env(NoFault))
                IN  r.err = "DuplicateTitle" /\ r.tasks = tasks

\* C3: for every collection the session holds and every task number p,
\* delete_task rejects p outside 1..len as an invalid position and leaves the
\* collection unchanged, and for p inside removes exactly the task at p.
C3_DeleteByPosition ==
    pc = "menu" =>
        \A p \in 0..MaxPos :
            LET r == delete_task(tasks, [pos |-> PosOf(p)], Env(NoFault))
            IN  IF p \in 1..Len(tasks)
                THEN /\ Len(r.tasks) = Len(tasks) - 1
                     /\ \A i \in 1..Len(r.tasks) :
                           r.tasks[i] = IF i < p THEN tasks[i] ELSE tasks[i + 1]
                ELSE r.err = "IndexOutOfRange" /\ r.tasks = tasks

\* C4: update_task at a valid position with a valid new due date succeeds,
\* gives exactly that task that due date, leaves every other task and field
\* unchanged and saves; with a due date that is not YYYY-MM-DD it ends with
\* the invalid-date error and changes nothing.
C4_UpdateField ==
    pc = "menu" =>
        \A k \in 1..Len(tasks) :
            LET good == update_task(tasks, [pos |-> PosOf(k), choice |-> <<"3">>,
                                            value |-> IsoDate], Env(NoFault))
                bad == update_task(tasks, [pos |-> PosOf(k), choice |-> <<"3">>,
                                           value |-> SlashDate], Env(NoFault))
            IN  /\ good.done
                /\ good.save.called
                /\ Len(good.tasks) = Len(tasks)
                /\ \A i \in 1..Len(tasks) :
                      Sem(good.tasks[i]) =
                         IF i = k THEN [Sem(tasks[i]) EXCEPT !.due_date = IsoDate]
                         ELSE Sem(tasks[i])
                /\ bad.err = "InvalidDate"
                /\ bad.tasks = tasks

\* C5: toggle_task_completion at a valid position flips the completed flag of
\* exactly that task and saves, and a second toggle of the same task gives
\* back the original flag.
C5_ToggleFlips ==
    pc = "menu" =>
        \A k \in 1..Len(tasks) :
            LET once == toggle_task_completion(tasks, [pos |-> PosOf(k)], Env(NoFault))
                twice == toggle_task_completion(once.tasks, [pos |-> PosOf(k)],
                                                [file |-> once.file, old |-> NoFile,
                                                 fault |-> NoFault])
            IN  /\ once.save.called
                /\ Len(once.tasks) = Len(tasks)
                /\ \A i \in 1..Len(tasks) :
                      once.tasks[i] = IF i = k
                                      THEN [tasks[i] EXCEPT !.completed = ~tasks[i].completed]
                                      ELSE tasks[i]
                /\ twice.tasks = tasks

\* C6: load_tasks never fails: whatever the storage file holds, main gets a
\* collection and reaches its command loop.
C6_LoadNeverFails ==
    last.op = "load" => (last.err = "" /\ pc = "menu")

\* C7: when the write step of save_tasks fails and the backup was created in
\* that call, save_tasks reports the outcome of the restore: either
\* "Restored from backup.", and then the storage file holds exactly its
\* pre-save content, or "Error restoring backup".
C7_RestoreAfterFailedWrite ==
    (/\ last.save.called
     /\ WriteFailed(last.save)
     /\ last.save.backupCreated)
    => \/ /\ "Restored from backup." \in Range(last.save.msgs)
          /\ file = preFile
       \/ "Error restoring backup" \in Range(last.save.msgs)

\* C7 witness: an add whose write failed after the backup was made, and whose
\* restore gave back the pre-save JSON content
C7_Witness ==
    /\ last.op = "add"
    /\ last.save.called
    /\ WriteFailed(last.save)
    /\ last.save.backupCreated
    /\ "Restored from backup." \in Range(last.save.msgs)
    /\ file = preFile
    /\ file.valid
    /\ Len(file.recs) > 0

\* C8: when the write step fails in a save_tasks call that made no backup
\* because no storage file existed, the restore step does nothing and
\* save_tasks returns normally.
C8_RestoreNoOpWithoutBackup ==
    (/\ last.save.called
     /\ WriteFailed(last.save)
     /\ ~last.save.hadFile)
    => last.err = ""

\* C9: for every collection the session holds and every candidate title,
\* validate_task_title gives the same outcome with the index built by
\* create_task_index as without an index.
C9_IndexEquivalence ==
    pc = "menu" =>
        \A title \in RawTitles :
            create_task_index(tasks).raised = "" =>
                validate_task_title(title, tasks,
                                    WithIndex(create_task_index(tasks).index))
                  = validate_task_title(title, tasks, NoIndex)

\* C10: for every collection the session holds, save_tasks followed at once
\* by load_tasks yields a collection semantically equal to the one saved.
C10_SaveLoadRoundTrip ==
    pc = "menu" =>
        LET sv == save_tasks(tasks, file, NoFile, NoFault)
        IN  /\ load_tasks(sv.file).raised = ""
            /\ SemSeq(load_tasks(sv.file).tasks) = SemSeq(tasks)

\* C11: no failure of a menu operation (a validation error, a storage
\* error, or an exception raised inside the operation) ends the process:
\* every step taken from the menu returns to the menu, except the Exit
\* command, the only way out of the loop.
C11_LoopSurvivesFailures ==
    [][pc = "menu" => (pc' = "menu" \/ Exit)]_vars

\* an exception left a read-only entry while a stored collection was held,
\* main reported it, and the menu takes the next command
C11_Witness ==
    /\ pc = "menu"
    /\ last.op \in {"view", "filter", "sort", "statistics", "search"}
    /\ last.escaped
    /\ last.err \in ExceptionClasses
    /\ tasks # << >>
    /\ ENABLED Exit

====
